---- MODULE Spec2Model ----
(***************************************************************************)
(* A model of script/build.py: the linear build driver of libskia.         *)
(*                                                                         *)
(* The script is one sequential process.  Its state is the interpreter's   *)
(* position (pc), the process's working directory and environment, the     *)
(* part of the file system it reads and writes, and the external           *)
(* processes it has started.  Paths are sequences of components; an        *)
(* absolute path is the sequence below "/".                                *)
(***************************************************************************)
EXTENDS Naturals, Sequences, FiniteSets, TLC

\* ------------------------------------------------------------------ bounds
\* External processes return a code in 0..MaxRet.
MaxRet == 1
\* PATH holds 0..MaxPathEntries entries when the script starts.
MaxPathEntries == 1
\* third_party/skia/include nests 0..MaxDepth sub-directories.
MaxDepth == 1
\* A driver of package() alone calls it at most MaxCalls times.
MaxCalls == 2

\* --------------------------------------------------------- module constants
CC == "clang"
CXX == "clang++"
NAME == "libskia"
VERSION == "m63"

VARIABLES
    pc,                 \* <<function, position>> of the interpreter
    cwd,                \* os.getcwd()
    saved,              \* scoped_cwd's local `cwd`: <<>> outside a block
    exc,                \* the exception in flight, "none" if there is none
    ret,                \* main()'s return value: <<>> until it returns
    exitcode,           \* the process's exit code: <<>> while it runs
    environ,            \* os.environ restricted to PATH
    dirs, files,        \* the directories and the regular files that exist
    tars,               \* tar file |-> the member names it holds
    path_created,       \* distutils.dir_util._path_created of this interpreter
    file,               \* __file__
    IS_DEBUG, IS_OFFICIAL_BUILD, ARCH,
    procs,              \* the external processes started, in order
    steps,              \* the functions main() has entered, in order
    returned,           \* the functions that returned normally, in order
    roots,              \* the value of each get_root_path() call, in order
    calls,              \* how many times package() was entered
    cwd0, env0          \* the working directory and PATH main() started with

vars == <<pc, cwd, saved, exc, ret, exitcode, environ, dirs, files, tars,
          path_created, file, IS_DEBUG, IS_OFFICIAL_BUILD, ARCH, procs, steps,
          returned, roots, calls, cwd0, env0>>

fsvars == <<dirs, files, tars, path_created>>
constvars == <<file, IS_DEBUG, IS_OFFICIAL_BUILD, ARCH, cwd0, env0>>

\* ------------------------------------------------------------------- paths
Front(s) == IF s = <<>> THEN s ELSE SubSeq(s, 1, Len(s) - 1)

IsPrefix(p, q) == Len(p) <= Len(q) /\ SubSeq(q, 1, Len(p)) = p

\* os.path.normpath of an absolute path: ".." removes the component before it.
RECURSIVE normpath_from(_, _)
normpath_from(acc, rest) ==
    IF rest = <<>> THEN acc
    ELSE IF Head(rest) = ".." THEN normpath_from(Front(acc), Tail(rest))
    ELSE normpath_from(Append(acc, Head(rest)), Tail(rest))

normpath(p) == normpath_from(<<>>, p)

\* os.path.dirname is lexical: it drops the last component.
dirname(p) == [abs |-> p.abs, parts |-> Front(p.parts)]

\* os.path.basename of a path without a trailing slash.
basename(p) == IF p = <<>> THEN "" ELSE p[Len(p)]

\* os.path.abspath joins a relative path to the working directory.
abspath(p, curdir) == normpath(IF p.abs THEN p.parts ELSE curdir \o p.parts)

\* A relative path used by the script, resolved by the operating system.
resolve(curdir, rel) == normpath(curdir \o rel)

get_root_path(curdir) == abspath(dirname(dirname(file)), curdir)

\* The text of an absolute path.
RECURSIVE PathStr(_)
PathStr(p) == IF p = <<>> THEN "" ELSE "/" \o Head(p) \o PathStr(Tail(p))

\* ------------------------------------------------------------- environment
\* PATH is text: a sequence of tokens, ":" the separator.
RECURSIVE SplitFrom(_, _, _)
SplitFrom(done, cur, rest) ==
    IF rest = <<>> THEN Append(done, cur)
    ELSE IF Head(rest) = ":" THEN SplitFrom(Append(done, cur), <<>>, Tail(rest))
    ELSE SplitFrom(done, Append(cur, Head(rest)), Tail(rest))

\* The entries of a PATH text, as the shell reads it.
PathEntries(text) == SplitFrom(<<>>, <<>>, text)

prepend_path_appending(dir, old) == old \o <<":", dir>>

\* depot_tools_dir + ":" + os.environ['PATH']
prepend_path(dir, old) == <<dir, ":">> \o old

\* ------------------------------------------------------ the checkout on disk
RealRoot == <<"r">>
ScriptFile == RealRoot \o <<"script", "build.py">>
Elsewhere == <<"h">>
SkiaRel == <<"third_party", "skia">>
SkiaDir == RealRoot \o SkiaRel
ReleaseDir == SkiaDir \o <<"out", "Release">>
LibFile == ReleaseDir \o <<"libskia.a">>
OutDir == RealRoot \o <<"out">>
StaleDir == OutDir \o <<"old">>

IncludeDir(k) == SkiaDir \o <<"include">> \o [i \in 1..k |-> "core"]
IncludeDirs(d) == {IncludeDir(k) : k \in 0..d}
IncludeFiles(d) == {IncludeDir(k) \o <<"SkTypes.h">> : k \in 0..d}

BaseDirs == {RealRoot, RealRoot \o <<"script">>, RealRoot \o <<"third_party">>,
             RealRoot \o <<"third_party", "depot_tools">>, Elsewhere}

Checkouts == {"none", "clean", "built"}
CheckoutDirs(c, d) ==
    IF c = "none" THEN {}
    ELSE {SkiaDir} \cup IncludeDirs(d)
         \cup (IF c = "built" THEN {SkiaDir \o <<"out">>, ReleaseDir} ELSE {})
CheckoutFiles(c, d) ==
    IF c = "none" THEN {}
    ELSE IncludeFiles(d) \cup (IF c = "built" THEN {LibFile} ELSE {})

Outs == {"absent", "stale", "file"}
OutDirs(o) == IF o = "stale" THEN {OutDir, StaleDir} ELSE {}
OutFiles(o) ==
    IF o = "stale" THEN {StaleDir \o <<"junk">>, OutDir \o <<"old.tar.gz">>}
    ELSE IF o = "file" THEN {OutDir}
    ELSE {}

\* The script's path as typed from directory c: as many ".." as it takes.
RECURSIVE CommonLen(_, _)
CommonLen(p, q) ==
    IF p = <<>> \/ q = <<>> \/ Head(p) # Head(q) THEN 0
    ELSE 1 + CommonLen(Tail(p), Tail(q))

RelativeTo(c) ==
    LET n == CommonLen(c, ScriptFile)
    IN  [i \in 1..(Len(c) - n) |-> ".."] \o SubSeq(ScriptFile, n + 1, Len(ScriptFile))

\* __file__ when started from c: the relative path as typed (interpreters
\* before 3.9), or the working directory joined to it, not normalised (3.9 on).
FileValues(c) == {[abs |-> FALSE, parts |-> RelativeTo(c)],
                  [abs |-> TRUE, parts |-> c \o RelativeTo(c)]}

PathDirs == <<"/usr/bin", "/bin", "/usr/local/bin", "/sbin">>
RECURSIVE PathText(_)
PathText(k) ==
    IF k = 0 THEN <<>>
    ELSE IF k = 1 THEN <<PathDirs[1]>>
    ELSE PathText(k - 1) \o <<":", PathDirs[k]>>

NoEnv == [n \in {} |-> <<>>]
Environs == {NoEnv} \cup {[n \in {"PATH"} |-> PathText(k)] : k \in 0..MaxPathEntries}

Archs == {"", "x86_64"}

\* -------------------------------------------------------------------- Init
InitEnv ==
    /\ \E c \in Checkouts, d \in 0..MaxDepth, o \in Outs :
         /\ c = "none" => d = 0
         /\ dirs = BaseDirs \cup CheckoutDirs(c, d) \cup OutDirs(o)
         /\ files = {ScriptFile} \cup CheckoutFiles(c, d) \cup OutFiles(o)
    /\ tars = [f \in {g \in files : basename(g) = "old.tar.gz"} |-> {<<"old">>, <<"old", "junk">>}]
    /\ path_created = {}
    /\ cwd \in {RealRoot, RealRoot \o <<"script">>, Elsewhere, OutDir, StaleDir} \cap dirs
    /\ cwd0 = cwd
    /\ file \in FileValues(cwd)
    /\ environ \in Environs
    /\ env0 = environ
    /\ IS_DEBUG \in BOOLEAN
    /\ IS_OFFICIAL_BUILD \in BOOLEAN
    /\ ARCH \in Archs
    /\ saved = <<>>
    /\ exc = "none"
    /\ ret = <<>>
    /\ exitcode = <<>>
    /\ procs = <<>>
    /\ steps = <<>>
    /\ returned = <<>>
    /\ roots = <<>>
    /\ calls = 0

Init == InitEnv /\ pc = <<"main", "set_environment">>


\* ------------------------------------------------------------ main's steps
Stages == {"sync_deps", "generate_ninja_project", "build_ninja_project"}
Scoped == Stages \cup {"package"}

\* The statement of main() that follows a call of fn.
NextCall(fn) ==
    CASE fn = "sync_deps" -> "generate_ninja_project"
      [] fn = "generate_ninja_project" -> "build_ninja_project"
      [] fn = "build_ninja_project" -> "package"

\* An exception leaves the running function: to its finally clause when it is
\* inside a scoped_cwd block, out of main() otherwise.
Raise(name, to) == exc' = name /\ pc' = to

\* set_environment(): os.environ['PATH'] raises KeyError when PATH is unset.
set_environment ==
    /\ pc = <<"main", "set_environment">>
    /\ steps' = Append(steps, "set_environment")
    /\ roots' = Append(roots, get_root_path(cwd))
    /\ IF "PATH" \in DOMAIN environ
       THEN /\ environ' = [environ EXCEPT !["PATH"] =
                  prepend_path(PathStr(get_root_path(cwd) \o <<"third_party", "depot_tools">>), @)]
            /\ returned' = Append(returned, "set_environment")
            /\ pc' = <<"sync_deps", "with">>
            /\ exc' = exc
       ELSE /\ Raise("KeyError", <<"main", "raise">>)
            /\ UNCHANGED <<environ, returned>>
    /\ UNCHANGED <<cwd, saved, ret, exitcode, fsvars, constvars, procs, calls>>

\* scoped_cwd(get_root_path()), lines 37-38: remember the working directory and
\* enter the root.  A failing chdir is raised before the try: nothing to restore.
scoped_cwd_enter ==
    /\ pc[2] = "with"
    /\ pc[1] \in Scoped
    /\ steps' = Append(steps, pc[1])
    /\ roots' = Append(roots, get_root_path(cwd))
    /\ calls' = IF pc[1] = "package" THEN calls + 1 ELSE calls
    /\ IF get_root_path(cwd) \in dirs
       THEN /\ saved' = <<cwd>>
            /\ cwd' = get_root_path(cwd)
            /\ pc' = <<pc[1], "body">>
            /\ exc' = exc
       ELSE /\ Raise("FileNotFoundError", <<"main", "raise">>)
            /\ UNCHANGED <<cwd, saved>>
    /\ UNCHANGED <<ret, exitcode, environ, fsvars, constvars, procs, returned>>

scoped_cwd_exit_keeping_cwd ==
    /\ pc[2] = "finally"
    /\ saved' = <<>>
    /\ cwd' = cwd
    /\ IF exc = "none"
       THEN pc' = <<pc[1], "return">> /\ returned' = Append(returned, pc[1]) /\ exc' = exc
       ELSE pc' = <<"main", "raise">> /\ returned' = returned /\ exc' = exc
    /\ UNCHANGED <<ret, exitcode, environ, fsvars, constvars, procs, steps, roots, calls>>

\* scoped_cwd's finally, line 42: os.chdir(cwd).  It runs when the block ends
\* and when an exception leaves it; the exception then goes on to the caller.
\* os.chdir raises when the remembered directory is gone.
scoped_cwd_exit ==
    /\ pc[2] = "finally"
    /\ saved' = <<>>
    /\ IF saved[1] \in dirs
       THEN /\ cwd' = saved[1]
            /\ IF exc = "none"
               THEN /\ pc' = <<pc[1], "return">>
                    /\ returned' = Append(returned, pc[1])
                    /\ exc' = exc
               ELSE /\ pc' = <<"main", "raise">>
                    /\ UNCHANGED <<returned, exc>>
       ELSE /\ Raise("FileNotFoundError", <<"main", "raise">>)
            /\ UNCHANGED <<cwd, returned>>
    /\ UNCHANGED <<ret, exitcode, environ, fsvars, constvars, procs, steps, roots, calls>>

\* os.chdir(os.path.join('third_party', 'skia')), lines 56, 69 and 97.
chdir_skia ==
    /\ pc[2] = "body"
    /\ pc[1] \in Stages
    /\ IF resolve(cwd, SkiaRel) \in dirs
       THEN cwd' = resolve(cwd, SkiaRel) /\ pc' = <<pc[1], "run">> /\ exc' = exc
       ELSE Raise("FileNotFoundError", <<pc[1], "finally">>) /\ cwd' = cwd
    /\ UNCHANGED <<saved, ret, exitcode, environ, fsvars, constvars, procs, steps,
                   returned, roots, calls>>

\* The argument list of generate_ninja_project, lines 70-83.
arg_list_debug_inverted ==
    << IF IS_DEBUG = TRUE THEN "is_debug=false" ELSE "is_debug=true",
       "cc=\"" \o CC \o "\"",
       "cxx=\"" \o CXX \o "\"",
       IF IS_OFFICIAL_BUILD = TRUE THEN "is_official_build=true" ELSE "is_official_build=false" >>

arg_list ==
    << IF IS_DEBUG = TRUE THEN "is_debug=true" ELSE "is_debug=false",
       "cc=\"" \o CC \o "\"",
       "cxx=\"" \o CXX \o "\"",
       IF IS_OFFICIAL_BUILD = TRUE THEN "is_official_build=true" ELSE "is_official_build=false" >>

\* The command of each stage as words.  generate_ninja_project's is one shell
\* line, "bin/gn gen out/Release --args='...'", the arguments joined by blanks.
sync_command == <<"python", "tools/git-sync-deps">>
gn_command == <<"bin/gn", "gen", "out/Release", "--args=">> \o arg_list
ninja_command == <<"ninja", "-C", "out/Release">>

\* subprocess.run starts the child and waits for it.
Started(fn, argv, shell) ==
    /\ procs' = Append(procs, [fn |-> fn, argv |-> argv, shell |-> shell,
                               cwd |-> cwd, returncode |-> <<>>])
    /\ pc' = <<fn, "wait">>
    /\ exc' = exc

\* Without a shell the child is executed directly, and subprocess.run raises
\* FileNotFoundError when the program is not found on PATH.
sync_deps_run ==
    /\ pc = <<"sync_deps", "run">>
    /\ \/ Started("sync_deps", sync_command, FALSE)
       \/ Raise("FileNotFoundError", <<"sync_deps", "finally">>) /\ procs' = procs
    /\ UNCHANGED <<cwd, saved, ret, exitcode, environ, fsvars, constvars, steps,
                   returned, roots, calls>>

generate_ninja_project_run_not_waiting ==
    /\ pc = <<"generate_ninja_project", "run">>
    /\ procs' = Append(procs, [fn |-> "generate_ninja_project", argv |-> gn_command,
                               shell |-> TRUE, cwd |-> cwd, returncode |-> <<>>])
    /\ pc' = <<"generate_ninja_project", "finally">>
    /\ UNCHANGED <<cwd, saved, exc, ret, exitcode, environ, fsvars, constvars, steps,
                   returned, roots, calls>>

\* With shell=True the shell always starts; a missing bin/gn is its code 127.
generate_ninja_project_run ==
    /\ pc = <<"generate_ninja_project", "run">>
    /\ Started("generate_ninja_project", gn_command, TRUE)
    /\ UNCHANGED <<cwd, saved, ret, exitcode, environ, fsvars, constvars, steps,
                   returned, roots, calls>>

build_ninja_project_run ==
    /\ pc = <<"build_ninja_project", "run">>
    /\ \/ Started("build_ninja_project", ninja_command, FALSE)
       \/ Raise("FileNotFoundError", <<"build_ninja_project", "finally">>) /\ procs' = procs
    /\ UNCHANGED <<cwd, saved, ret, exitcode, environ, fsvars, constvars, steps,
                   returned, roots, calls>>

\* What a successful external command leaves on disk: gn writes the build
\* directory out/Release, ninja the library in it.  A failed one leaves the
\* disk as it was.
BuiltDirs(fn, code) ==
    IF code = 0 /\ fn \in {"generate_ninja_project", "build_ninja_project"}
    THEN {SkiaDir \o <<"out">>, ReleaseDir} ELSE {}
BuiltFiles(fn, code) ==
    IF code = 0 /\ fn = "build_ninja_project" THEN {LibFile} ELSE {}

\* The child terminates with some return code and subprocess.run returns the
\* CompletedProcess.
process_exit ==
    /\ pc[2] = "wait"
    /\ \E code \in 0..MaxRet :
         /\ procs' = [procs EXCEPT ![Len(procs)].returncode = <<code>>]
         /\ dirs' = dirs \cup BuiltDirs(pc[1], code)
         /\ files' = files \cup BuiltFiles(pc[1], code)
    /\ pc' = <<pc[1], "finally">>
    /\ UNCHANGED <<cwd, saved, exc, ret, exitcode, environ, tars, path_created,
                   constvars, steps, returned, roots, calls>>

\* bool(CompletedProcess): the class defines neither __bool__ nor __len__, so an
\* instance is true whatever its returncode.
CompletedProcess_bool(p) == TRUE

\* main(), lines 127-132: `if not <stage>(): return 1`.
main_check ==
    /\ pc[2] = "return"
    /\ pc[1] \in Stages
    /\ IF ~CompletedProcess_bool(procs[Len(procs)])
       THEN ret' = <<1>> /\ pc' = <<"main", "return">>
       ELSE ret' = ret /\ pc' = <<NextCall(pc[1]), "with">>
    /\ UNCHANGED <<cwd, saved, exc, exitcode, environ, fsvars, constvars, procs,
                   steps, returned, roots, calls>>

\* main(), lines 133-134: package() returned, return 0.
main_return ==
    /\ pc = <<"package", "return">>
    /\ ret' = <<0>>
    /\ pc' = <<"main", "return">>
    /\ UNCHANGED <<cwd, saved, exc, exitcode, environ, fsvars, constvars, procs,
                   steps, returned, roots, calls>>

ExitStatus_ignoring_exception(raised, value) == IF raised THEN <<0>> ELSE value

\* sys.exit(main()): main's value, or 1 when an exception left main().
ExitStatus(raised, value) == IF raised THEN <<1>> ELSE value

sys_exit ==
    /\ pc[1] = "main"
    /\ pc[2] \in {"return", "raise"}
    /\ exitcode' = ExitStatus(pc[2] = "raise", ret)
    /\ pc' = <<"main", "exited">>
    /\ UNCHANGED <<cwd, saved, exc, ret, environ, fsvars, constvars, procs, steps,
                   returned, roots, calls>>


\* ----------------------------------------------------------------- package
sub_folder_arch_first == NAME \o "-" \o ARCH \o "-" \o VERSION

\* "%s-%s-%s" % (NAME, VERSION, ARCH), line 114.
sub_folder == NAME \o "-" \o VERSION \o "-" \o ARCH

tmp_dir == <<"out">>
dst == tmp_dir \o <<sub_folder>>

rmtree_keeping(S, t) == S

\* shutil.rmtree(t): what is left of the set S of paths.
rmtree(S, t) == {p \in S : ~IsPrefix(t, p)}

\* The body of package() runs in the resolved root (the working directory
\* scoped_cwd entered); no stage uses this position.
InPackage(at) == pc = <<"package", at>>

PackageFrame == UNCHANGED <<saved, ret, exitcode, environ, constvars, procs, steps,
                            returned, roots, calls>>

\* Lines 112-113: if os.path.exists('out'): rmtree('out').  rmtree of a regular
\* file raises NotADirectoryError.
package_rmtree ==
    /\ InPackage("body")
    /\ LET t == resolve(cwd, tmp_dir)
       IN  IF t \in files
           THEN /\ Raise("NotADirectoryError", <<"package", "finally">>)
                /\ UNCHANGED <<dirs, files, tars>>
           ELSE /\ dirs' = IF t \in dirs THEN rmtree(dirs, t) ELSE dirs
                /\ files' = IF t \in dirs THEN rmtree(files, t) ELSE files
                /\ tars' = IF t \in dirs
                           THEN [f \in rmtree(DOMAIN tars, t) |-> tars[f]]
                           ELSE tars
                /\ pc' = <<"package", "mkdir">>
                /\ exc' = exc
    /\ UNCHANGED <<cwd, path_created>>
    /\ PackageFrame

\* Every directory on the way to p, p included.
Ancestors(p) == {SubSeq(p, 1, k) : k \in 1..Len(p)}

\* Lines 116-117: pathlib.Path(...).mkdir(parents=True, exist_ok=True).
package_mkdir ==
    /\ InPackage("mkdir")
    /\ LET new == Ancestors(resolve(cwd, dst \o <<"lib">>))
                  \cup Ancestors(resolve(cwd, dst \o <<"include">>))
       IN  IF new \cap files # {}
           THEN Raise("FileExistsError", <<"package", "finally">>) /\ dirs' = dirs
           ELSE dirs' = dirs \cup new /\ pc' = <<"package", "copy2">> /\ exc' = exc
    /\ UNCHANGED <<cwd, files, tars, path_created>>
    /\ PackageFrame

\* Line 118: copy2 of the library into dst/lib.
package_copy2 ==
    /\ InPackage("copy2")
    /\ LET src == resolve(cwd, SkiaRel \o <<"out", "Release", "libskia.a">>)
           into == resolve(cwd, dst \o <<"lib">>)
       IN  IF src \in files /\ into \in dirs
           THEN /\ files' = files \cup {into \o <<basename(src)>>}
                /\ pc' = <<"package", "copy_tree">>
                /\ exc' = exc
           ELSE Raise("FileNotFoundError", <<"package", "finally">>) /\ files' = files
    /\ UNCHANGED <<cwd, dirs, tars, path_created>>
    /\ PackageFrame

\* distutils.dir_util.mkpath: it creates the missing directories on the way to
\* name and remembers each in _path_created; a directory it remembers creating
\* is taken to exist and is not created again.
RECURSIVE mkpath_rec(_, _)
mkpath_rec(name, st) ==
    IF name = <<>> \/ name \in st.dirs \/ ~st.ok THEN st
    ELSE LET up == mkpath_rec(Front(name), st)
         IN  IF ~up.ok \/ name \in up.created THEN up
             ELSE IF Front(name) = <<>> \/ Front(name) \in up.dirs
             THEN [up EXCEPT !.dirs = @ \cup {name}, !.created = @ \cup {name}]
             ELSE [up EXCEPT !.ok = FALSE]

mkpath(name, st) ==
    IF name \in st.dirs \/ name \in st.created THEN st ELSE mkpath_rec(name, st)

\* distutils.dir_util.copy_tree(src, to): mkpath(to), then every entry of src,
\* a directory by a recursive call, a file by copy_file, which raises when the
\* directory to does not exist.  The files of a directory are taken first.
RECURSIVE copy_tree(_, _, _)
RECURSIVE copy_subtrees(_, _, _, _)
copy_subtrees(todo, src, to, st) ==
    IF todo = {} \/ ~st.ok THEN st
    ELSE LET d == CHOOSE x \in todo : TRUE
         IN  copy_subtrees(todo \ {d}, src, to,
                           copy_tree(d, to \o <<basename(d)>>, st))

copy_tree(src, to, st) ==
    IF ~st.ok \/ src \notin st.dirs THEN [st EXCEPT !.ok = FALSE]
    ELSE LET made == mkpath(to, st)
             fs == {f \in st.files : Front(f) = src}
             ds == {d \in st.dirs : d # <<>> /\ Front(d) = src}
         IN  IF ~made.ok \/ (fs # {} /\ to \notin made.dirs)
             THEN [made EXCEPT !.ok = FALSE]
             ELSE copy_subtrees(ds, src, to,
                    [made EXCEPT !.files = @ \cup {to \o <<basename(f)>> : f \in fs}])

\* Line 119: copy_tree of the headers into dst/include.  When it raises
\* (DistutilsFileError), the entries listed before the failing one are copied.
package_copy_tree ==
    /\ InPackage("copy_tree")
    /\ LET st == copy_tree(resolve(cwd, SkiaRel \o <<"include">>),
                           resolve(cwd, dst \o <<"include">>),
                           [ok |-> TRUE, dirs |-> dirs, files |-> files,
                            created |-> path_created])
       IN  /\ dirs' = st.dirs
           /\ path_created' = st.created
           /\ IF st.ok
              THEN files' = st.files /\ pc' = <<"package", "chdir">> /\ exc' = exc
              ELSE /\ \E part \in SUBSET (st.files \ files) : files' = files \cup part
                   /\ Raise("DistutilsFileError", <<"package", "finally">>)
    /\ UNCHANGED <<cwd, tars>>
    /\ PackageFrame

\* Line 121: os.chdir('out').
package_chdir_out ==
    /\ InPackage("chdir")
    /\ IF resolve(cwd, tmp_dir) \in dirs
       THEN cwd' = resolve(cwd, tmp_dir) /\ pc' = <<"package", "tar">> /\ exc' = exc
       ELSE Raise("FileNotFoundError", <<"package", "finally">>) /\ cwd' = cwd
    /\ UNCHANGED fsvars
    /\ PackageFrame

\* tar.add(srcdir, arcname=...): srcdir and all below it, each named by
\* arcname followed by its path below srcdir.
tar_members(top, arcname, D, F) ==
    {<<arcname>> \o SubSeq(p, Len(top) + 1, Len(p)) : p \in {q \in D \cup F : IsPrefix(top, q)}}

\* make_tarball(sub_folder, sub_folder + '.tar.gz'), lines 102-104 and 122:
\* tarfile.open creates the file, tar.add raises when srcdir does not exist.
package_make_tarball ==
    /\ InPackage("tar")
    /\ LET srcdir == <<sub_folder>>
           filename == resolve(cwd, <<sub_folder \o ".tar.gz">>)
           top == resolve(cwd, srcdir)
           members == tar_members(top, basename(srcdir), dirs, files)
       IN  /\ files' = files \cup {filename}
           /\ tars' = [f \in DOMAIN tars \cup {filename} |->
                          IF f = filename THEN members ELSE tars[f]]
           /\ IF top \in dirs
              THEN pc' = <<"package", "finally">> /\ exc' = exc
              ELSE Raise("FileNotFoundError", <<"package", "finally">>)
    /\ UNCHANGED <<cwd, dirs, path_created>>
    /\ PackageFrame

\* ------------------------------------------------------- the specifications
Next ==
    \/ set_environment
    \/ scoped_cwd_enter
    \/ chdir_skia
    \/ sync_deps_run
    \/ generate_ninja_project_run
    \/ build_ninja_project_run
    \/ process_exit
    \/ scoped_cwd_exit
    \/ main_check
    \/ package_rmtree
    \/ package_mkdir
    \/ package_copy2
    \/ package_copy_tree
    \/ package_chdir_out
    \/ package_make_tarball
    \/ main_return
    \/ sys_exit

\* One run of the script.
Spec == Init /\ [][Next]_vars

\* package() called on its own, as a caller importing the module does: up to
\* MaxCalls times, in one interpreter or in a new one each time.
package_again ==
    /\ pc = <<"package", "return">>
    /\ calls < MaxCalls
    /\ pc' = <<"package", "with">>
    /\ UNCHANGED <<cwd, saved, exc, ret, exitcode, environ, fsvars, constvars, procs,
                   steps, returned, roots, calls>>

\* The next call is made by a new interpreter: its distutils has created
\* nothing yet.
new_interpreter ==
    /\ pc = <<"package", "return">>
    /\ calls < MaxCalls
    /\ path_created # {}
    /\ path_created' = {}
    /\ UNCHANGED <<pc, cwd, saved, exc, ret, exitcode, environ, dirs, files, tars,
                   constvars, procs, steps, returned, roots, calls>>

InitPackage == InitEnv /\ pc = <<"package", "with">>

NextPackage ==
    \/ scoped_cwd_enter
    \/ package_rmtree
    \/ package_mkdir
    \/ package_copy2
    \/ package_copy_tree
    \/ package_chdir_out
    \/ package_make_tarball
    \/ scoped_cwd_exit
    \/ package_again
    \/ new_interpreter

SpecPackage == InitPackage /\ [][NextPackage]_vars


\* ------------------------------------------------------------------ claims
Range(s) == {s[i] : i \in 1..Len(s)}
Last(s) == s[Len(s)]
Exited == pc = <<"main", "exited">>
Failed(p) == p.returncode # <<>> /\ p.returncode # <<0>>
Succeeded(p) == p.returncode = <<0>>
Order == <<"set_environment", "sync_deps", "generate_ninja_project",
           "build_ninja_project", "package">>
PackageName == NAME \o "-" \o VERSION \o "-" \o ARCH
Under(S, t) == {p \in S : IsPrefix(t, p)}

\* C1: when an external command returned a non-zero code, the script's exit
\* code is 1.
C1_FailureExitsOne ==
    (Exited /\ \E i \in 1..Len(procs) : Failed(procs[i])) => exitcode = <<1>>

\* C2: after an external command returned a non-zero code no later stage is
\* entered: the failed stage is the last function main() entered.
C2_NoStageAfterFailure ==
    \A i \in 1..Len(procs) : Failed(procs[i]) => Last(steps) = procs[i].fn

\* C3 as stated: outside every scoped_cwd block the working directory is the
\* one main() started with, however the blocks before ended.
C3_CwdAlwaysRestored == saved = <<>> => cwd = cwd0

\* C3 amended: outside every scoped_cwd block the working directory is the one
\* main() started with, unless package() removed that directory: then the
\* restoring chdir raised FileNotFoundError and the working directory is where
\* package() was, the root or its out directory.
C3_CwdRestoredWhileItExists ==
    saved = <<>> =>
        \/ cwd = cwd0
        \/ /\ cwd0 \notin dirs
           /\ IsPrefix(Last(roots) \o <<"out">>, cwd0)
           /\ Last(steps) = "package"
           /\ exc = "FileNotFoundError"
           /\ pc[1] = "main"
           /\ cwd \in {Last(roots), Last(roots) \o <<"out">>}

\* C3 witness: package() raised inside its block after removing and recreating
\* the directory main() started in, and the working directory is restored.
C3_Witness ==
    /\ pc = <<"main", "raise">>
    /\ Last(steps) = "package"
    /\ cwd0 = OutDir
    /\ StaleDir \notin dirs
    /\ cwd = cwd0

\* C4: exit code 0 only after package() returned, and exit code 0 whenever all
\* three commands returned 0 and package() returned.
C4_ExitZeroIffPackaged ==
    /\ exitcode = <<0>> => (returned # <<>> /\ Last(returned) = "package")
    /\ (/\ Exited
        /\ Len(procs) = 3
        /\ \A i \in 1..Len(procs) : Succeeded(procs[i])
        /\ "package" \in Range(returned)) => exitcode = <<0>>

\* C4 witness: a run in which the three commands returned 0, package() returned
\* and the script exited with 0.
C4_Witness ==
    /\ Exited
    /\ exitcode = <<0>>
    /\ Len(procs) = 3
    /\ \A i \in 1..Len(procs) : Succeeded(procs[i])

\* C5: the functions are entered in the fixed order, each at most once, and an
\* external process still running is the last one started, with main() waiting
\* for it.
C5_FixedOrderBlocking ==
    /\ Len(steps) <= Len(Order)
    /\ steps = SubSeq(Order, 1, Len(steps))
    /\ Len(procs) <= 3
    /\ \A i \in 1..Len(procs) :
         /\ procs[i].fn = Order[i + 1]
         /\ procs[i].returncode = <<>> => (i = Len(procs) /\ pc = <<procs[i].fn, "wait">>)

\* C5 witness: a run that entered all five steps, its three processes ended.
C5_Witness ==
    /\ Len(steps) = 5
    /\ Len(procs) = 3
    /\ \A i \in 1..Len(procs) : Succeeded(procs[i])

\* C6: once package() returned, out holds the tarball <NAME>-<VERSION>-<ARCH>.tar.gz,
\* every member of it lies under the folder <NAME>-<VERSION>-<ARCH>, and the
\* lib and include folders are members.
C6_TarballLayout ==
    (returned # <<>> /\ Last(returned) = "package") =>
        LET tarball == Last(roots) \o <<"out", PackageName \o ".tar.gz">>
        IN  /\ tarball \in files
            /\ tarball \in DOMAIN tars
            /\ DOMAIN tars = {tarball}
            /\ \A m \in tars[tarball] : Len(m) >= 1 /\ m[1] = PackageName
            /\ {<<PackageName>>, <<PackageName, "lib">>, <<PackageName, "include">>,
                <<PackageName, "lib", "libskia.a">>} \subseteq tars[tarball]

\* C6 witness: package() returned on a machine whose processor name is empty,
\* with a nested header tree.
C6_Witness ==
    /\ returned # <<>> /\ Last(returned) = "package"
    /\ ARCH = ""
    /\ IncludeDir(1) \in dirs

SettingsOf(argv, key) == {k \in 1..Len(argv) : argv[k] \in {key \o "=true", key \o "=false"}}
BoolText(b) == IF b THEN "true" ELSE "false"
C8_GnArguments ==
    \A i \in 1..Len(procs) :
      /\ procs[i].fn = "generate_ninja_project" =>
           /\ Cardinality(SettingsOf(procs[i].argv, "is_debug")) = 1
           /\ Cardinality(SettingsOf(procs[i].argv, "is_official_build")) = 1
           /\ ("is_debug=" \o BoolText(IS_DEBUG)) \in Range(procs[i].argv)
           /\ ("is_official_build=" \o BoolText(IS_OFFICIAL_BUILD)) \in Range(procs[i].argv)
           /\ "cc=\"clang\"" \in Range(procs[i].argv)
           /\ "cxx=\"clang++\"" \in Range(procs[i].argv)
           /\ SubSeq(procs[i].argv, 1, 3) = <<"bin/gn", "gen", "out/Release">>
      /\ procs[i].fn = "build_ninja_project" =>
           /\ procs[i].argv = <<"ninja", "-C", procs[i - 1].argv[3]>>
           /\ procs[i].cwd = procs[i - 1].cwd

\* C8 witness: gn and ninja both started in a debug, non-official configuration.
C8_Witness ==
    /\ Len(procs) = 3
    /\ IS_DEBUG
    /\ ~IS_OFFICIAL_BUILD

\* C9: every get_root_path() call of a run gives the same directory, and every
\* command is started in third_party/skia below it.
C9_SameRootEveryStage ==
    /\ \A i \in 1..Len(roots) : roots[i] = roots[1]
    /\ \A i \in 1..Len(procs) : procs[i].cwd = roots[1] \o SkiaRel

\* C9 witness: a run started elsewhere by a relative script path that reached
\* package() with all three commands run.
C9_Witness ==
    /\ Len(procs) = 3
    /\ Len(roots) = 5
    /\ ~file.abs
    /\ cwd0 = Elsewhere

\* What package() is to leave under <root>/out: the named folder with the
\* library and the header tree, and the tarball.
PackagedDirs(root) ==
    LET inc == root \o SkiaRel \o <<"include">>
        top == root \o <<"out", PackageName>>
    IN  {root \o <<"out">>, top, top \o <<"lib">>}
        \cup {top \o <<"include">> \o SubSeq(d, Len(inc) + 1, Len(d)) : d \in Under(dirs, inc)}
PackagedFiles(root) ==
    LET inc == root \o SkiaRel \o <<"include">>
        top == root \o <<"out", PackageName>>
    IN  {top \o <<"lib", "libskia.a">>, root \o <<"out", PackageName \o ".tar.gz">>}
        \cup {top \o <<"include">> \o SubSeq(f, Len(inc) + 1, Len(f)) : f \in Under(files, inc)}
OutIsPackaged ==
    /\ Under(dirs, Last(roots) \o <<"out">>) = PackagedDirs(Last(roots))
    /\ Under(files, Last(roots) \o <<"out">>) = PackagedFiles(Last(roots))

\* C10 as stated: when package() returns, out holds the fresh folder and its
\* tarball only, and a second call of package() leaves out with these contents
\* again.
C10_SecondCallSameContents ==
    /\ pc = <<"package", "return">> => OutIsPackaged
    /\ (calls >= 2 /\ pc \in {<<"package", "return">>, <<"main", "raise">>}) => OutIsPackaged

\* C10 amended: whenever package() returns, out holds the fresh folder and its
\* tarball only, so a second call that returns leaves the same contents; a second
\* call fails only with DistutilsFileError, in the interpreter of the first call
\* (distutils remembers directories that rmtree has removed) and when the header
\* tree has a sub-directory.
C10_PackagedWheneverReturned ==
    /\ pc = <<"package", "return">> => OutIsPackaged
    /\ (calls >= 2 /\ pc = <<"main", "raise">>) =>
          /\ exc = "DistutilsFileError"
          /\ IncludeDir(1) \in dirs
          /\ \E d \in path_created : d \notin dirs

\* C10 witness: the second call, made by a new interpreter on a nested header
\* tree, returned.
C10_Witness ==
    /\ calls = 2
    /\ pc = <<"package", "return">>
    /\ IncludeDir(1) \in dirs
    /\ path_created # {}

====
